---- MODULE Spec2Model ----
(***************************************************************************)
(* QUIC echo server (src/src/bin/quic_echo_server.rs) and echo client      *)
(* (src/src/bin/quic_echo_client.rs) as one state machine.                 *)
(*                                                                         *)
(* The server side is the accept loop of main, one handle_incoming task    *)
(* per incoming connection attempt, one datagram echo task per connection  *)
(* and one stream echo task per accepted bidirectional stream.  The client *)
(* side is main of the client: connect, then one exchange (datagram or     *)
(* stream).  A peer that runs the stream exchange on several streams of    *)
(* one connection stands for the concurrent-stream scenarios.              *)
(*                                                                         *)
(* The QUIC transport (quinn) is the environment: it delivers or loses     *)
(* datagrams, delivers stream bytes in order, and closes connections.      *)
(* Stream payloads are counted in blocks of Granule bytes.  What the       *)
(* environment does wrong (a foreign peer, a lost or refused datagram, a   *)
(* connection the server's side loses) is counted in faults and capped by  *)
(* MaxFaults.                                                              *)
(***************************************************************************)
EXTENDS Integers, Sequences, FiniteSets, Bags, TLC

\* ---------------------------------------------------------------- bounds
NConn == 2
NStreams == 2
MaxPayload == 2
\* Exploration budget: every exchange weighs Overhead plus the length of its
\* payload, and the exchanges of a run weigh at most MaxLoad together.
Overhead == 7
MaxLoad == 16
MaxFaults == 1
\* A peer in datagram mode sends its datagram up to MaxBurst times at once.
MaxBurst == 2

\* ------------------------------------------------------ program constants
Granule == 8 * 1024
\* let mut buf = [0u8; 16 * 1024]
BufSize == (16 * 1024) \div Granule
\* recv.read_to_end(64 * 1024)
ReadBudget == (64 * 1024) \div Granule
\* const ALPN: &[u8] = b"freven-quic-test"  (server and client)
ServerALPN == "freven-quic-test"
ClientALPN == "freven-quic-test"
\* Opt.port default
DefaultPort == 12806

Conns == 1 .. NConn
Streams == 1 .. NStreams

\* What a peer may present as its application protocol: the client of this
\* repository presents ClientALPN, a foreign peer something else.
PeerALPNs == {ClientALPN, "h3"}

\* quinn::ConnectionError kinds the server side of a connection can end with.
\* No task of the server calls close, so LocallyClosed does not occur.
ConnErrors == {"ApplicationClosed", "TimedOut"}

\* The errors of one stream with the connection alive: the peer has reset
\* its sending half (read fails), or stopped its receiving half (write fails).
StreamErrors == {"Reset", "Stopped"}

\* What a peer can do to one stream with the connection alive: one of the
\* errors, or never read the echoed bytes, so that the stream's flow-control
\* credit runs out and a write to it stays pending ("Blocked").
PeerStreamFaults == StreamErrors \cup {"Blocked"}

\* Payloads.  Neither program looks at the value of a byte, so each block of
\* a payload is written as <<c, s, i>>: block i of the payload of exchange s
\* on connection c.  Blocks of different exchanges are then never equal, and
\* a payload differs from each of its reorderings.
Payload(c, s, len) == [i \in 1 .. len |-> <<c, s, i>>]
PayloadLens == (0 .. MaxPayload) \cup {ReadBudget + 1}

Min(a, b) == IF a <= b THEN a ELSE b
Prefix(q, k) == SubSeq(q, 1, k)
Drop(q, k) == SubSeq(q, k + 1, Len(q))
IsPrefix(p, q) == Len(p) <= Len(q) /\ Prefix(q, Len(p)) = p

VARIABLES
  acceptor,   \* server main: pc of the accept loop
  handler,    \* handler[c]: pc of handle_incoming for attempt c
  srvErr,     \* srvErr[c]: "None" or the ConnectionError of the server's conn
  dgram,      \* dgram[c]: pc of the datagram echo task
  log,        \* lines written by eprintln!, each with its number of copies
  task,       \* task[c][s]: pc of the stream echo task
  buf,        \* buf[c][s]: the bytes buf[..n] of the last read not yet written
  recvd,      \* recvd[c][s]: all bytes the task has read from recv
  written,    \* written[c][s]: all bytes the task has written to send
  finSent,    \* finSent[c][s]: send.finish() reached a live connection
  opt,        \* opt[c]: the client's parsed options
  verifier,   \* verifier[c]: certificate verifier of the client's TLS config
  alpn,       \* alpn[c]: the protocol the peer presents
  client,     \* client[c]: pc of the client's main at connection level
  cliErr,     \* cliErr[c]: the client's conn has a ConnectionError
  xchg,       \* xchg[c][s]: pc of the client's exchange
  payload,    \* payload[c][s]: the payload of the exchange
  outcome,    \* outcome[c][s]: result of the exchange
  data,       \* data[c][s]: the response the client printed
  inbound,    \* inbound[c][s]: stream bytes delivered to the server
  finIn,      \* finIn[c][s]: the client's finish delivered to the server
  strmErr,    \* strmErr[c][s]: the peer has given up one half of the stream
  stalled,    \* stalled[c]: the peer grants the client no stream or flow credit
  dgIn,       \* dgIn[c]: datagrams buffered at the server
  dgBack,     \* dgBack[c]: datagrams buffered at the client
  dgRead,     \* dgRead[c]: datagrams read_datagram returned to the server
  dgEchoed,   \* dgEchoed[c]: datagrams send_datagram accepted at the server
  faults      \* environment faults so far

srvConn == <<acceptor, handler, srvErr, dgram, log>>
tasks == <<task, buf, recvd, written, finSent>>
cliConn == <<opt, verifier, alpn, client, cliErr>>
exch == <<xchg, payload, outcome, data>>
strm == <<inbound, finIn, strmErr, stalled>>
dgs == <<dgIn, dgBack, dgRead, dgEchoed>>

vars == <<srvConn, tasks, cliConn, exch, strm, dgs, faults>>

NoOpt == [host |-> "", port |-> 0, datagram |-> FALSE]

Init ==
  /\ acceptor = "accept"
  /\ handler = [c \in Conns |-> "none"]
  /\ srvErr = [c \in Conns |-> "None"]
  /\ dgram = [c \in Conns |-> "none"]
  /\ log = EmptyBag
  /\ task = [c \in Conns |-> [s \in Streams |-> "none"]]
  /\ buf = [c \in Conns |-> [s \in Streams |-> <<>>]]
  /\ recvd = [c \in Conns |-> [s \in Streams |-> <<>>]]
  /\ written = [c \in Conns |-> [s \in Streams |-> <<>>]]
  /\ finSent = [c \in Conns |-> [s \in Streams |-> FALSE]]
  /\ opt = [c \in Conns |-> NoOpt]
  /\ verifier = [c \in Conns |-> "none"]
  /\ alpn = [c \in Conns |-> "none"]
  /\ client = [c \in Conns |-> "start"]
  /\ cliErr = [c \in Conns |-> FALSE]
  /\ xchg = [c \in Conns |-> [s \in Streams |-> "idle"]]
  /\ payload = [c \in Conns |-> [s \in Streams |-> <<>>]]
  /\ outcome = [c \in Conns |-> [s \in Streams |-> "none"]]
  /\ data = [c \in Conns |-> [s \in Streams |-> <<>>]]
  /\ inbound = [c \in Conns |-> [s \in Streams |-> <<>>]]
  /\ finIn = [c \in Conns |-> [s \in Streams |-> FALSE]]
  /\ strmErr = [c \in Conns |-> [s \in Streams |-> "None"]]
  /\ stalled = [c \in Conns |-> FALSE]
  /\ dgIn = [c \in Conns |-> <<>>]
  /\ dgBack = [c \in Conns |-> <<>>]
  /\ dgRead = [c \in Conns |-> <<>>]
  /\ dgEchoed = [c \in Conns |-> <<>>]
  /\ faults = 0

\* The environment misbehaves once more, within the cap.
Fault == faults < MaxFaults /\ faults' = faults + 1
NoFault == faults' = faults

\* ------------------------------------------------------------- the client

\* struct Opt of the client: host, port, datagram.
ClientOpt(d) == [host |-> "localhost", port |-> DefaultPort, datagram |-> d]

\* A configuration with the library's chain validation.
make_client_config_webpki == [verifier |-> "WebPki", alpn |-> ClientALPN]

\* make_client_config: the TLS configuration every connect uses.
make_client_config ==
  [verifier |-> "SkipServerVerification", alpn |-> ClientALPN]

\* SkipServerVerification::verify_server_cert: accepts whatever is presented.
verify_server_cert(cert) == TRUE

\* The certificate check of a handshake under verifier v; "WebPki" is the
\* library's chain validation, which a self-signed certificate fails.
\* The server's certificate: the self-signed one its documentation generates.
ServerCert == "self_signed"
CertAccepted(v, cert) ==
  IF v = "SkipServerVerification" THEN verify_server_cert(cert)
  ELSE cert = "ca_issued"

\* A server that asks for no particular protocol.
NegotiatedAny(c) == TRUE

\* ALPN negotiation of rustls: the server's alpn_protocols holds ServerALPN
\* alone, so the handshake goes through only for a peer presenting it.
Negotiated(c) == alpn[c] = ServerALPN

\* The weight of the exchanges begun, and of the one exchange of every
\* client that has connected and has yet to begin it.
Started == {x \in Conns \X Streams : xchg[x[1]][x[2]] # "idle"}
Reserved == {c \in Conns : client[c] \in {"connect", "ready"} /\ xchg[c][1] = "idle"}

RECURSIVE SumLen(_)
SumLen(S) ==
  IF S = {} THEN 0
  ELSE LET x == CHOOSE y \in S : TRUE
       IN Len(payload[x[1]][x[2]]) + SumLen(S \ {x})
Load ==
  Overhead * (Cardinality(Started) + Cardinality(Reserved)) + SumLen(Started)
\* Room for one more exchange, and for the len bytes of payload of the
\* exchange that begins on stream s.
Budget == Load + Overhead <= MaxLoad
Room(s, len) == Load + (IF s = 1 THEN 0 ELSE Overhead) + len <= MaxLoad

CanStart(c, s) ==
  /\ client[c] = "ready"
  /\ xchg[c][s] = "idle"
  /\ s > 1 => xchg[c][s - 1] # "idle" /\ Budget

\* The server's side of connection c is established and has no error.
SrvAlive(c) == handler[c] = "accept_bi" /\ srvErr[c] = "None"
\* The server's side of connection c has ended.
SrvGone(c) == srvErr[c] # "None"
\* The client's side of connection c is established and has no error.
CliAlive(c) == client[c] = "ready" /\ ~cliErr[c]

\* main, lines 166-198: parse the options, build the configuration, start
\* the handshake.  The attempt reaches the server's endpoint as an Incoming.
\* A peer presenting another protocol than ClientALPN is a foreign peer.
ClientConnect(c) ==
  /\ client[c] = "start"
  /\ c > 1 => client[c - 1] # "start"
  /\ Budget
  /\ \E d \in BOOLEAN, a \in PeerALPNs :
       /\ opt' = [opt EXCEPT ![c] = ClientOpt(d)]
       /\ verifier' = [verifier EXCEPT ![c] = make_client_config.verifier]
       /\ alpn' = [alpn EXCEPT ![c] = a]
       /\ IF a = make_client_config.alpn THEN NoFault ELSE Fault
  /\ client' = [client EXCEPT ![c] = "connect"]
  /\ handler' = [handler EXCEPT ![c] = "queued"]
  /\ UNCHANGED <<acceptor, srvErr, dgram, log, cliErr>>
  /\ UNCHANGED <<tasks, exch, strm, dgs>>

\* The exchange ends: a ? operator returns the error, or the response is
\* printed.  main then returns unless another exchange of the peer is still
\* running; returning drops conn, which closes the connection with an
\* application close that the server's side observes.
Finish(c, s, o, d) ==
  /\ xchg' = [xchg EXCEPT ![c][s] = "done"]
  /\ outcome' = [outcome EXCEPT ![c][s] = o]
  /\ data' = [data EXCEPT ![c][s] = d]
  /\ IF \A r \in Streams \ {s} : xchg[c][r] \in {"idle", "done"}
     THEN /\ client' = [client EXCEPT ![c] = "exit"]
          /\ cliErr' = [cliErr EXCEPT ![c] = TRUE]
          /\ srvErr' = [srvErr EXCEPT ![c] =
                          IF @ = "None" THEN "ApplicationClosed" ELSE @]
     ELSE UNCHANGED <<client, cliErr, srvErr>>
  /\ UNCHANGED <<opt, verifier, alpn, payload>>
  /\ UNCHANGED <<acceptor, handler, dgram, log>>

\* k copies of datagram d.
Copies(d, k) == [i \in 1 .. k |-> d]

\* main, line 209: conn.send_datagram(payload)?  The datagram is buffered at
\* the server while the server's side is alive.  The client of this
\* repository sends it once; a peer may send it several times.
ClientSendDatagram(c) ==
  /\ CanStart(c, 1)
  /\ opt[c].datagram
  /\ IF cliErr[c]
     THEN /\ Finish(c, 1, "conn_error", <<>>)
          /\ dgIn' = dgIn
     ELSE /\ Room(1, 1)
          /\ payload' = [payload EXCEPT ![c][1] = Payload(c, 1, 1)]
          /\ xchg' = [xchg EXCEPT ![c][1] = "read_datagram"]
          /\ \E k \in 1 .. MaxBurst :
               dgIn' = [dgIn EXCEPT ![c] =
                          IF SrvAlive(c) THEN @ \o Copies(Payload(c, 1, 1), k)
                          ELSE @]
          /\ UNCHANGED <<outcome, data, cliConn, srvConn>>
  /\ UNCHANGED <<dgBack, dgRead, dgEchoed>>
  /\ UNCHANGED <<tasks, strm, faults>>

\* main, line 210: read_datagram() inside the timeout returns a datagram.
ClientReadDatagram(c) ==
  /\ xchg[c][1] = "read_datagram"
  /\ dgBack[c] # <<>>
  /\ Finish(c, 1, "ok", Head(dgBack[c]))
  /\ dgBack' = [dgBack EXCEPT ![c] = Tail(@)]
  /\ UNCHANGED <<dgIn, dgRead, dgEchoed>>
  /\ UNCHANGED <<tasks, strm, faults>>

\* main, line 210: read_datagram() returns Err(ConnectionError).
ClientReadDatagramErr(c) ==
  /\ xchg[c][1] = "read_datagram"
  /\ cliErr[c]
  /\ Finish(c, 1, "conn_error", <<>>)
  /\ UNCHANGED <<tasks, strm, dgs, faults>>

\* open_bi or write_all is ready: the connection has an error to return, or
\* the peer's credit lets the stream be opened or the payload be taken.
SendReady(c) == cliErr[c] \/ ~stalled[c]

\* main, line 213: conn.open_bi().await?
ClientOpenBi(c, s) ==
  /\ CanStart(c, s)
  /\ ~opt[c].datagram
  /\ SendReady(c)
  /\ IF cliErr[c]
     THEN Finish(c, s, "conn_error", <<>>)
     ELSE /\ \E len \in PayloadLens :
               /\ Room(s, len)
               /\ payload' = [payload EXCEPT ![c][s] = Payload(c, s, len)]
          /\ xchg' = [xchg EXCEPT ![c][s] = "write_all"]
          /\ UNCHANGED <<outcome, data, cliConn, srvConn>>
  /\ UNCHANGED <<tasks, strm, dgs, faults>>

\* main, line 214: send.write_all(payload).await?  The bytes reach the
\* server while its side is alive.
ClientWriteAll(c, s) ==
  /\ xchg[c][s] = "write_all"
  /\ SendReady(c)
  /\ IF cliErr[c]
     THEN /\ Finish(c, s, "conn_error", <<>>)
          /\ inbound' = inbound
     ELSE /\ xchg' = [xchg EXCEPT ![c][s] = "finish"]
          /\ inbound' = [inbound EXCEPT ![c][s] =
                           IF SrvAlive(c) THEN payload[c][s] ELSE @]
          /\ UNCHANGED <<payload, outcome, data, cliConn, srvConn>>
  /\ UNCHANGED <<finIn, strmErr, stalled, tasks, dgs, faults>>

\* main, line 215: send.finish()?  It fails only on a stream finished or
\* stopped before, which this one is not; the end-of-input reaches the
\* server while its side is alive.
ClientFinish(c, s) ==
  /\ xchg[c][s] = "finish"
  /\ xchg' = [xchg EXCEPT ![c][s] = "read_to_end"]
  /\ finIn' = [finIn EXCEPT ![c][s] = SrvAlive(c)]
  /\ UNCHANGED <<payload, outcome, data, inbound, strmErr, stalled>>
  /\ UNCHANGED <<srvConn, tasks, cliConn, dgs, faults>>

\* RecvStream::read_to_end(limit): more than limit bytes is an error.
TooLong(q) == Len(q) > ReadBudget

\* main, line 216: read_to_end(64 * 1024) inside the timeout returns the
\* bytes the server wrote, once its finish has arrived.
ClientReadToEnd(c, s) ==
  /\ xchg[c][s] = "read_to_end"
  /\ finSent[c][s]
  /\ ~TooLong(written[c][s])
  /\ Finish(c, s, "ok", written[c][s])
  /\ UNCHANGED <<tasks, strm, dgs, faults>>

\* main, line 216: read_to_end returns Err(TooLong): the response is over
\* the limit.
ClientReadTooLong(c, s) ==
  /\ xchg[c][s] = "read_to_end"
  /\ TooLong(written[c][s])
  /\ Finish(c, s, "too_long", <<>>)
  /\ UNCHANGED <<tasks, strm, dgs, faults>>

\* main, line 216: read_to_end returns Err(Read(ConnectionLost)).
ClientReadToEndErr(c, s) ==
  /\ xchg[c][s] = "read_to_end"
  /\ cliErr[c]
  /\ Finish(c, s, "conn_error", <<>>)
  /\ UNCHANGED <<tasks, strm, dgs, faults>>

\* A receive without the timeout around it.
ReceiveNoTimer(c, s) == FALSE

\* A timeout whose timer is looked at before the receive.
ReceiveTimerFirst(c, s) == TRUE

\* The future inside tokio::time::timeout is pending: no connection error
\* seen, and no datagram buffered, or neither the peer's finish nor more
\* than the limit received.  (timeout polls the future before the timer.)
ReceivePending(c, s) ==
  /\ ~cliErr[c]
  /\ xchg[c][s] = "read_datagram" => dgBack[c] = <<>>
  /\ xchg[c][s] = "read_to_end" => ~finSent[c][s] /\ ~TooLong(written[c][s])

\* A timeout around the whole exchange, open_bi and write_all included.
ClientTimeoutWhole(c, s) ==
  /\ xchg[c][s] \in {"write_all", "finish", "read_datagram", "read_to_end"}
  /\ xchg[c][s] \in {"read_datagram", "read_to_end"} => ReceivePending(c, s)
  /\ Finish(c, s, "timeout", <<>>)
  /\ UNCHANGED <<tasks, strm, dgs, faults>>

\* main, lines 210 and 216: Duration::from_secs(5) elapsed with the receive
\* still pending; the first ? returns Elapsed.
ClientTimeout(c, s) ==
  /\ xchg[c][s] \in {"read_datagram", "read_to_end"}
  /\ ReceivePending(c, s)
  /\ Finish(c, s, "timeout", <<>>)
  /\ UNCHANGED <<tasks, strm, dgs, faults>>

\* The client's side of the connection learns that the server's side has
\* ended.
ClientConnLost(c) ==
  /\ CliAlive(c)
  /\ SrvGone(c)
  /\ cliErr' = [cliErr EXCEPT ![c] = TRUE]
  /\ UNCHANGED <<opt, verifier, alpn, client>>
  /\ UNCHANGED <<srvConn, tasks, exch, strm, dgs, faults>>

\* ------------------------------------------------------------- the server

\* An accept loop that awaits handle_incoming instead of spawning it.
AcceptorReadySerial ==
  /\ acceptor = "accept"
  /\ \A c \in Conns : handler[c] \notin {"handshake", "accept_bi"}

\* main, lines 112-118: endpoint.accept().await yields the next Incoming and
\* the loop spawns handle_incoming for it, without awaiting the task.
AcceptorReady == acceptor = "accept"

Accept(c) ==
  /\ AcceptorReady
  /\ handler[c] = "queued"
  /\ handler' = [handler EXCEPT ![c] = "handshake"]
  /\ acceptor' = "accept"
  /\ UNCHANGED <<srvErr, dgram, log>>
  /\ UNCHANGED <<tasks, cliConn, exch, strm, dgs, faults>>

\* main, line 115: the line eprintln! writes for a failed connection.
Failed(c) == log (+) SetToBag({<<"connection failed", c>>})

\* A spawned task that lets the error of handle_incoming end the accept loop.
SpawnedPropagates(c, r) ==
  IF r = "ret_err"
  THEN log' = Failed(c) /\ acceptor' = "stopped"
  ELSE UNCHANGED <<log, acceptor>>

\* main, lines 113-117: the spawned task, once handle_incoming has returned
\* r: an Err is logged and dropped; the accept loop is not involved.
Spawned(c, r) ==
  IF r = "ret_err"
  THEN log' = Failed(c) /\ acceptor' = acceptor
  ELSE UNCHANGED <<log, acceptor>>

\* The handshake goes through: a common protocol, and the client's verifier
\* accepts the server's certificate.
HandshakePasses(c) == Negotiated(c) /\ CertAccepted(verifier[c], ServerCert)

\* handle_incoming, lines 123-141, and the client's main, line 198: both
\* awaits return the connection; the server spawns the datagram echo task
\* and enters the stream loop.
HandshakeOk(c) ==
  /\ handler[c] = "handshake"
  /\ client[c] = "connect"
  /\ HandshakePasses(c)
  /\ handler' = [handler EXCEPT ![c] = "accept_bi"]
  /\ dgram' = [dgram EXCEPT ![c] = "read_datagram"]
  /\ client' = [client EXCEPT ![c] = "ready"]
  /\ UNCHANGED <<acceptor, srvErr, log, opt, verifier, alpn, cliErr>>
  /\ UNCHANGED <<tasks, exch, strm, dgs, faults>>

\* handle_incoming, line 123, and the client's main, line 198: both awaits
\* return Err (no common protocol, or the certificate refused).  The
\* server's task logs it and ends; the client's main returns the error.
HandshakeErr(c) ==
  /\ handler[c] = "handshake"
  /\ client[c] = "connect"
  /\ ~HandshakePasses(c)
  /\ handler' = [handler EXCEPT ![c] = "ret_err"]
  /\ Spawned(c, "ret_err")
  /\ client' = [client EXCEPT ![c] = "failed"]
  /\ cliErr' = [cliErr EXCEPT ![c] = TRUE]
  /\ UNCHANGED <<srvErr, dgram, opt, verifier, alpn>>
  /\ UNCHANGED <<tasks, exch, strm, dgs, faults>>

\* A datagram task that sends the datagram without its first byte.
EchoDatagramTail(d) == Tail(d)

\* What the datagram task sends for a datagram it read (line 137).
EchoDatagram(d) == d

\* A datagram task that holds the handle of another connection.
DgramConnOther(c) == (c % NConn) + 1

\* The connection the datagram task of connection c sends on (dgram_conn).
DgramConn(c) == c

\* Lines 136-139, one iteration: read_datagram() returns Ok(data) and
\* send_datagram(data) is called.  A datagram it accepts arrives at the
\* client, unless the network loses it.
DgramEcho(c) ==
  /\ dgram[c] = "read_datagram"
  /\ dgIn[c] # <<>>
  /\ srvErr[c] = "None"
  /\ dgIn' = [dgIn EXCEPT ![c] = Tail(@)]
  /\ dgRead' = [dgRead EXCEPT ![c] = Append(@, Head(dgIn[c]))]
  /\ LET to == DgramConn(c)
         d == EchoDatagram(Head(dgIn[c]))
     IN /\ dgEchoed' = [dgEchoed EXCEPT ![to] = Append(@, d)]
        /\ \/ /\ CliAlive(to)
              /\ dgBack' = [dgBack EXCEPT ![to] = Append(@, d)]
              /\ NoFault
           \/ /\ dgBack' = dgBack
              /\ IF CliAlive(to) THEN Fault ELSE NoFault
  /\ UNCHANGED <<srvConn, tasks, cliConn, exch, strm>>

\* A datagram task that leaves its loop when send_datagram returns Err.
DgramEchoFailBreak(c) ==
  /\ dgram[c] = "read_datagram"
  /\ dgIn[c] # <<>>
  /\ IF srvErr[c] # "None" THEN NoFault ELSE Fault
  /\ dgIn' = [dgIn EXCEPT ![c] = Tail(@)]
  /\ dgRead' = [dgRead EXCEPT ![c] = Append(@, Head(dgIn[c]))]
  /\ log' = log (+) SetToBag({<<"datagram send failed", c>>})
  /\ dgram' = [dgram EXCEPT ![c] = "exit"]
  /\ UNCHANGED <<acceptor, handler, srvErr, dgBack, dgEchoed>>
  /\ UNCHANGED <<tasks, cliConn, exch, strm>>

\* Lines 136-139, one iteration in which send_datagram(data) returns Err: the
\* connection is lost, or the transport refuses the datagram (too large for
\* the path).  The failure is logged and the loop goes on.
DgramEchoFail(c) ==
  /\ dgram[c] = "read_datagram"
  /\ dgIn[c] # <<>>
  /\ IF srvErr[c] # "None" THEN NoFault ELSE Fault
  /\ dgIn' = [dgIn EXCEPT ![c] = Tail(@)]
  /\ dgRead' = [dgRead EXCEPT ![c] = Append(@, Head(dgIn[c]))]
  /\ log' = log (+) SetToBag({<<"datagram send failed", c>>})
  /\ UNCHANGED <<acceptor, handler, srvErr, dgram, dgBack, dgEchoed>>
  /\ UNCHANGED <<tasks, cliConn, exch, strm>>

\* Line 136: read_datagram() returns Err; the while-let loop and the task end.
DgramExit(c) ==
  /\ dgram[c] = "read_datagram"
  /\ srvErr[c] # "None"
  /\ dgram' = [dgram EXCEPT ![c] = "exit"]
  /\ UNCHANGED <<acceptor, handler, srvErr, log>>
  /\ UNCHANGED <<tasks, cliConn, exch, strm, dgs, faults>>

\* A handle_incoming that echoes a stream inside its accept loop: the next
\* stream is accepted when no echo of the connection is under way.
AcceptBiSerial(c, s) ==
  /\ handler[c] = "accept_bi"
  /\ task[c][s] = "none"
  /\ finIn[c][s] \/ inbound[c][s] # <<>>
  /\ \A r \in Streams : task[c][r] \in {"none", "done", "aborted"}
  /\ \A r \in Streams :
       r < s => ~(task[c][r] = "none" /\ (finIn[c][r] \/ inbound[c][r] # <<>>))
  /\ task' = [task EXCEPT ![c][s] = "read"]
  /\ UNCHANGED <<buf, recvd, written, finSent>>
  /\ UNCHANGED <<srvConn, cliConn, exch, strm, dgs, faults>>

\* A stream the peer has opened and written to, not yet accepted.
PendingStream(c, s) ==
  /\ task[c][s] = "none"
  /\ finIn[c][s] \/ inbound[c][s] # <<>>

\* Lines 145-151: accept_bi() returns the next stream (in stream order) and
\* its echo task is spawned.
AcceptBi(c, s) ==
  /\ handler[c] = "accept_bi"
  /\ PendingStream(c, s)
  /\ \A r \in Streams : r < s => ~PendingStream(c, r)
  /\ task' = [task EXCEPT ![c][s] = "read"]
  /\ UNCHANGED <<buf, recvd, written, finSent>>
  /\ UNCHANGED <<srvConn, cliConn, exch, strm, dgs, faults>>

\* An accept loop that takes every connection error for a clean close.
AcceptResultOk(e) == "ret_ok"

\* Lines 147-148: the result of handle_incoming for an accept_bi error.
AcceptResult(e) == IF e = "ApplicationClosed" THEN "ret_ok" ELSE "ret_err"

\* A handle_incoming that joins its datagram task and its echo tasks before
\* it returns.
AcceptBiErrJoin(c) ==
  /\ handler[c] = "accept_bi"
  /\ srvErr[c] # "None"
  /\ dgram[c] = "exit"
  /\ \A s \in Streams : task[c][s] \in {"none", "done", "aborted"}
  /\ handler' = [handler EXCEPT ![c] = AcceptResult(srvErr[c])]
  /\ Spawned(c, AcceptResult(srvErr[c]))
  /\ UNCHANGED <<srvErr, dgram>>
  /\ UNCHANGED <<tasks, cliConn, exch, strm, dgs, faults>>

\* Lines 145-149: accept_bi() returns Err; the loop and handle_incoming end.
AcceptBiErr(c) ==
  /\ handler[c] = "accept_bi"
  /\ srvErr[c] # "None"
  /\ handler' = [handler EXCEPT ![c] = AcceptResult(srvErr[c])]
  /\ Spawned(c, AcceptResult(srvErr[c]))
  /\ UNCHANGED <<srvErr, dgram>>
  /\ UNCHANGED <<tasks, cliConn, exch, strm, dgs, faults>>

\* The (send, recv) pair the echo task of stream s on connection c owns:
\* it reads from recv of RecvOf and writes to send of SendOf.
RecvOf(c, s) == <<c, s>>

\* An echo task that writes to the send half of another stream.
SendOfOther(c, s) == <<c, (s % NStreams) + 1>>

SendOf(c, s) == <<c, s>>

\* The bytes of a recv half not yet read.
Unread(c, s) == Drop(inbound[c][s], Len(recvd[c][s]))

\* A slice that is one byte short.
EchoSliceShort(b, n) == Prefix(b, n - 1)

\* Line 160: the slice of buf that is written after a read of n bytes into buf.
EchoSlice(b, n) == Prefix(b, n)

\* Line 154: read returns Err, for the connection or for the recv half.
ReadFails(c, s) == srvErr[c] # "None" \/ strmErr[c][s] = "Reset"

\* Line 160: write_all returns Err, for the connection or for the send half.
WriteFails(c, s) == srvErr[c] # "None" \/ strmErr[c][s] = "Stopped"

\* Line 160: write_all is pending: the peer does not read what is echoed.
WriteBlocked(c, s) == srvErr[c] = "None" /\ strmErr[c][s] = "Blocked"

\* An echo task that reads ahead of its writes, queueing what it reads.
StreamReadAhead(c, s) ==
  /\ task[c][s] \in {"read", "write"}
  /\ strmErr[c][s] # "Reset"
  /\ LET from == RecvOf(c, s)
         avail == Unread(from[1], from[2])
     IN \E n \in 1 .. Min(BufSize, Len(avail)) :
          /\ buf' = [buf EXCEPT ![c][s] = @ \o EchoSlice(Prefix(avail, n), n)]
          /\ recvd' = [recvd EXCEPT ![from[1]][from[2]] = @ \o Prefix(avail, n)]
  /\ task' = [task EXCEPT ![c][s] = "write"]
  /\ UNCHANGED <<written, finSent>>
  /\ UNCHANGED <<srvConn, cliConn, exch, strm, dgs, faults>>

\* Lines 154, 159: read(&mut recv, &mut buf) returns Ok(n), 0 < n <= buf.len().
StreamRead(c, s) ==
  /\ task[c][s] = "read"
  /\ strmErr[c][s] # "Reset"
  /\ LET from == RecvOf(c, s)
         avail == Unread(from[1], from[2])
     IN \E n \in 1 .. Min(BufSize, Len(avail)) :
          /\ buf' = [buf EXCEPT ![c][s] = EchoSlice(Prefix(avail, n), n)]
          /\ recvd' = [recvd EXCEPT ![from[1]][from[2]] = @ \o Prefix(avail, n)]
  /\ task' = [task EXCEPT ![c][s] = "write"]
  /\ UNCHANGED <<written, finSent>>
  /\ UNCHANGED <<srvConn, cliConn, exch, strm, dgs, faults>>

\* Lines 155-158: read returns Ok(0), the peer's end-of-input; send.finish()
\* is called and the task ends.
StreamEof(c, s) ==
  /\ task[c][s] = "read"
  /\ Unread(c, s) = <<>>
  /\ finIn[c][s]
  /\ strmErr[c][s] # "Reset"
  /\ task' = [task EXCEPT ![c][s] = "done"]
  /\ finSent' = [finSent EXCEPT ![c][s] = ~WriteFails(c, s)]
  /\ UNCHANGED <<buf, recvd, written>>
  /\ UNCHANGED <<srvConn, cliConn, exch, strm, dgs, faults>>

\* A task that goes on with the loop when read returns Err.
StreamReadRetry(c, s) ==
  /\ task[c][s] = "read"
  /\ ReadFails(c, s)
  /\ UNCHANGED vars

\* A read error that ends every echo task of the connection.
StreamReadErrAll(c, s) ==
  /\ task[c][s] = "read"
  /\ ReadFails(c, s)
  /\ task' = [task EXCEPT ![c] =
                [r \in Streams |-> IF r = s \/ task[c][r] \in {"read", "write"}
                                   THEN "aborted" ELSE task[c][r]]]
  /\ UNCHANGED <<buf, recvd, written, finSent>>
  /\ UNCHANGED <<srvConn, cliConn, exch, strm, dgs, faults>>

\* Line 167: read returns Err; the task ends.
StreamReadErr(c, s) ==
  /\ task[c][s] = "read"
  /\ ReadFails(c, s)
  /\ task' = [task EXCEPT ![c][s] = "aborted"]
  /\ UNCHANGED <<buf, recvd, written, finSent>>
  /\ UNCHANGED <<srvConn, cliConn, exch, strm, dgs, faults>>

\* A write_all that sends the slice twice.
StreamWriteTwice(c, s) ==
  /\ task[c][s] = "write"
  /\ ~WriteFails(c, s)
  /\ ~WriteBlocked(c, s)
  /\ LET to == SendOf(c, s)
     IN written' = [written EXCEPT ![to[1]][to[2]] = @ \o buf[c][s] \o buf[c][s]]
  /\ buf' = [buf EXCEPT ![c][s] = <<>>]
  /\ task' = [task EXCEPT ![c][s] = "read"]
  /\ UNCHANGED <<recvd, finSent>>
  /\ UNCHANGED <<srvConn, cliConn, exch, strm, dgs, faults>>

\* Lines 160-161: write_all(&mut send, &buf[..n]) returns Ok.
StreamWrite(c, s) ==
  /\ task[c][s] = "write"
  /\ ~WriteFails(c, s)
  /\ ~WriteBlocked(c, s)
  /\ LET to == SendOf(c, s)
     IN written' = [written EXCEPT ![to[1]][to[2]] = @ \o buf[c][s]]
  /\ buf' = [buf EXCEPT ![c][s] = <<>>]
  /\ task' = [task EXCEPT ![c][s] = "read"]
  /\ UNCHANGED <<recvd, finSent>>
  /\ UNCHANGED <<srvConn, cliConn, exch, strm, dgs, faults>>

\* A task that goes back to reading when write_all returns Err.
StreamWriteErrGoOn(c, s) ==
  /\ task[c][s] = "write"
  /\ WriteFails(c, s)
  /\ task' = [task EXCEPT ![c][s] = "read"]
  /\ buf' = [buf EXCEPT ![c][s] = <<>>]
  /\ UNCHANGED <<recvd, written, finSent>>
  /\ UNCHANGED <<srvConn, cliConn, exch, strm, dgs, faults>>

\* Lines 160-165: write_all returns Err; the task ends.
StreamWriteErr(c, s) ==
  /\ task[c][s] = "write"
  /\ WriteFails(c, s)
  /\ task' = [task EXCEPT ![c][s] = "aborted"]
  /\ UNCHANGED <<buf, recvd, written, finSent>>
  /\ UNCHANGED <<srvConn, cliConn, exch, strm, dgs, faults>>

\* ---------------------------------------------------------- the transport

\* The server's side of an established connection ends by itself with
\* error e: the path to the peer has failed.
ServerConnLost(c, e) ==
  /\ handler[c] = "accept_bi"
  /\ srvErr[c] = "None"
  /\ e # "ApplicationClosed"
  /\ Fault
  /\ srvErr' = [srvErr EXCEPT ![c] = e]
  /\ UNCHANGED <<acceptor, handler, dgram, log>>
  /\ UNCHANGED <<tasks, cliConn, exch, strm, dgs>>

\* The peer gives up one half of stream s with the connection alive:
\* RESET_STREAM for its sending half, STOP_SENDING for its receiving half,
\* or no more credit for what the server sends on it.
PeerAbort(c, s, e) ==
  /\ SrvAlive(c)
  /\ xchg[c][s] \in {"finish", "read_to_end"}
  /\ task[c][s] \notin {"done", "aborted"}
  /\ strmErr[c][s] = "None"
  /\ Fault
  /\ strmErr' = [strmErr EXCEPT ![c][s] = e]
  /\ UNCHANGED <<inbound, finIn, stalled>>
  /\ UNCHANGED <<srvConn, tasks, cliConn, exch, dgs>>

\* The peer stops granting credit to the client with the connection alive:
\* open_bi and write_all of the client stay pending from then on.
PeerWithholds(c) ==
  /\ CliAlive(c)
  /\ ~opt[c].datagram
  /\ xchg[c][1] \in {"idle", "write_all"}
  /\ ~stalled[c]
  /\ Fault
  /\ stalled' = [stalled EXCEPT ![c] = TRUE]
  /\ UNCHANGED <<inbound, finIn, strmErr>>
  /\ UNCHANGED <<srvConn, tasks, cliConn, exch, dgs>>

Next ==
  \/ \E c \in Conns :
       \/ ClientConnect(c)
       \/ ClientSendDatagram(c)
       \/ ClientReadDatagram(c)
       \/ ClientReadDatagramErr(c)
       \/ ClientConnLost(c)
       \/ Accept(c)
       \/ HandshakeOk(c)
       \/ HandshakeErr(c)
       \/ DgramEcho(c)
       \/ DgramEchoFail(c)
       \/ DgramExit(c)
       \/ AcceptBiErr(c)
       \/ \E e \in ConnErrors : ServerConnLost(c, e)
       \/ PeerWithholds(c)
  \/ \E c \in Conns, s \in Streams :
       \/ ClientOpenBi(c, s)
       \/ ClientWriteAll(c, s)
       \/ ClientFinish(c, s)
       \/ ClientReadToEnd(c, s)
       \/ ClientReadTooLong(c, s)
       \/ ClientReadToEndErr(c, s)
       \/ ClientTimeout(c, s)
       \/ AcceptBi(c, s)
       \/ StreamRead(c, s)
       \/ StreamEof(c, s)
       \/ StreamReadErr(c, s)
       \/ StreamWrite(c, s)
       \/ StreamWriteErr(c, s)
       \/ \E e \in PeerStreamFaults : PeerAbort(c, s, e)

Spec == Init /\ [][Next]_vars

\* The steps of the server's tasks and of the clients' mains.  The tokio
\* runtime runs every task that is ready, so a step that stays possible is
\* eventually taken; the transport and new clients are under no obligation.
ServerStep ==
  \/ \E c \in Conns :
       \/ Accept(c)
       \/ HandshakeOk(c)
       \/ HandshakeErr(c)
       \/ DgramEcho(c)
       \/ DgramEchoFail(c)
       \/ DgramExit(c)
       \/ AcceptBiErr(c)
  \/ \E c \in Conns, s \in Streams :
       \/ AcceptBi(c, s)
       \/ StreamRead(c, s)
       \/ StreamEof(c, s)
       \/ StreamReadErr(c, s)
       \/ StreamWrite(c, s)
       \/ StreamWriteErr(c, s)

ClientStep ==
  \/ \E c \in Conns :
       \/ ClientReadDatagram(c)
       \/ ClientReadDatagramErr(c)
  \/ \E c \in Conns, s \in Streams :
       \/ ClientWriteAll(c, s)
       \/ ClientFinish(c, s)
       \/ ClientReadToEnd(c, s)
       \/ ClientReadTooLong(c, s)
       \/ ClientReadToEndErr(c, s)
       \/ ClientTimeout(c, s)

FairSpec == Spec /\ WF_vars(ServerStep) /\ WF_vars(ClientStep)

\* ------------------------------------------------------------- the claims

Range(q) == {q[i] : i \in 1 .. Len(q)}
StreamMode(c) == ~opt[c].datagram
Ended(c, s, o) == xchg[c][s] = "done" /\ outcome[c][s] = o

\* C1: stream echo round trip.  For a payload P no longer than the client's
\* read budget: an echo task that has finished its send half has written
\* exactly P, a client whose read-to-end returns has exactly P, and the
\* read-to-end never fails on the length.
C1_StreamRoundTrip ==
  \A c \in Conns, s \in Streams :
    (StreamMode(c) /\ ~TooLong(payload[c][s])) =>
      /\ finSent[c][s] => written[c][s] = payload[c][s]
      /\ Ended(c, s, "ok") => data[c][s] = payload[c][s]
      /\ ~Ended(c, s, "too_long")

C1_Witness ==
  \E c \in Conns, s \in Streams :
    /\ StreamMode(c)
    /\ Len(payload[c][s]) = MaxPayload
    /\ Ended(c, s, "ok")

\* C2: datagram echo round trip.  Every datagram the server's datagram task
\* sends is the datagram it read at that position, and a client whose
\* read_datagram returns has exactly the payload it sent.
C2_DatagramRoundTrip ==
  \A c \in Conns :
    /\ \A i \in 1 .. Len(dgEchoed[c]) : dgEchoed[c][i] \in Range(dgRead[c])
    /\ (opt[c].datagram /\ Ended(c, 1, "ok")) =>
         /\ payload[c][1] # <<>>
         /\ data[c][1] = payload[c][1]

C2_Witness ==
  \E c \in Conns : opt[c].datagram /\ Ended(c, 1, "ok")

\* C3: stream isolation.  On one connection, every byte written on the send
\* half of a stream was read from the receive half of that same stream, and
\* what a client receives on a stream holds bytes of that stream's payload
\* only.
C3_StreamIsolation ==
  \A c \in Conns, s \in Streams :
    /\ Range(written[c][s]) \subseteq Range(recvd[c][s])
    /\ \A r \in Streams \ {s} :
         Range(written[c][s]) \cap Range(payload[c][r]) = {}
    /\ Ended(c, s, "ok") /\ StreamMode(c) =>
         Range(data[c][s]) \subseteq Range(payload[c][s])

C3_Witness ==
  \E c \in Conns : \A s \in 1 .. 2 :
    task[c][s] = "read" /\ written[c][s] # <<>>

\* The datagram task, the stream accept loop and every stream echo task of
\* connection c have ended.
Terminated(c) ==
  /\ dgram[c] = "exit"
  /\ handler[c] \in {"ret_ok", "ret_err"}
  /\ \A s \in Streams : task[c][s] \in {"none", "done", "aborted"}

\* C4: closure terminates all workers.  Once the server's side of a
\* connection has ended (the peer's close, or a timeout of the transport),
\* which is for good, its datagram task, its accept loop and all its stream
\* echo tasks eventually have ended, each by leaving its loop.
C4_ClosureTerminatesWorkers ==
  <>[](\A c \in Conns : srvErr[c] # "None" => Terminated(c))

C4_Witness ==
  \E c \in Conns :
    /\ srvErr[c] = "TimedOut"
    /\ Terminated(c)
    /\ \E s \in Streams : task[c][s] = "aborted"

Receiving(c, s) == xchg[c][s] \in {"read_datagram", "read_to_end"}

\* C5: client timeout.  A client that waits for the response, in datagram
\* mode or in stream mode, eventually stops waiting: when no response
\* arrives the timeout ends the exchange.
C5_ClientTimeout ==
  <>[](\A c \in Conns, s \in Streams : ~Receiving(c, s))

C5_Witness ==
  \E c, d \in Conns :
    /\ opt[c].datagram /\ Ended(c, 1, "timeout")
    /\ StreamMode(d) /\ Ended(d, 1, "timeout")

\* C6: the acceptor survives per-connection failures.  The accept loop is
\* at endpoint.accept() in every reachable state, whatever handshakes and
\* connections have failed, and every failure is in the log.
C6_AcceptorSurvives ==
  /\ acceptor = "accept"
  /\ \A c \in Conns :
       handler[c] = "ret_err" => BagIn(<<"connection failed", c>>, log)

C6_Witness ==
  /\ handler[1] = "ret_err"
  /\ BagIn(<<"connection failed", 1>>, log)
  /\ handler[2] = "accept_bi"

\* C7: the acceptor is never blocked by a connection.  An attempt that
\* waits at the endpoint can be accepted at once, whatever the handshakes
\* and the workers of the other connections are doing.
C7_AcceptorNeverBlocked ==
  \A c \in Conns : handler[c] = "queued" => ENABLED Accept(c)

C7_Witness ==
  \E c \in Conns, s \in Streams :
    /\ handler[c] = "accept_bi"
    /\ task[c][s] = "write"
    /\ \E d \in Conns : c < d /\ handler[d] = "handshake"

\* The server's side of connection c has ended while the client had not
\* closed: the close is the server side's.
ServerClosed(c) == srvErr[c] = "TimedOut"

\* The response the client waits for on stream s is there to be read.
ResponseReady(c, s) ==
  IF opt[c].datagram THEN dgBack[c] # <<>>
  ELSE finSent[c][s] \/ TooLong(written[c][s])

\* C8 as claimed: when the server's side closes the connection before the
\* client's exchange has completed, the client's run ends with a connection
\* error.
C8_ForcedCloseIsConnError ==
  \A c \in Conns :
    ( /\ ServerClosed(c)
      /\ xchg[c][1] = "done"
      /\ \A s \in Streams \ {1} : xchg[c][s] = "idle" )
    => outcome[c][1] = "conn_error"

\* C8 as amended: an exchange that ends after the client's side of the
\* connection has learnt of the closure never ends with a timeout; it ends
\* with a connection error, or with the response that was there already.
C8_ObservedCloseIsConnError ==
  [][\A c \in Conns, s \in Streams :
       (cliErr[c] /\ xchg[c][s] # "done" /\ xchg'[c][s] = "done") =>
         /\ outcome'[c][s] # "timeout"
         /\ outcome'[c][s] = "conn_error" \/ ResponseReady(c, s)]_vars

C8_Witness ==
  \E c \in Conns :
    /\ ServerClosed(c)
    /\ inbound[c][1] # <<>>
    /\ Ended(c, 1, "conn_error")

\* C9: no cross-connection echoing.  Every datagram the server sends on a
\* connection was read on that connection and is a payload of that
\* connection's client; every byte written on a stream of a connection was
\* read from a stream of that connection.
C9_NoCrossConnection ==
  \A c \in Conns :
    /\ \A d \in Range(dgEchoed[c]) :
         /\ d \in Range(dgRead[c])
         /\ \A b \in Range(d) : b[1] = c
    /\ \A s \in Streams : \A b \in Range(written[c][s]) :
         /\ b[1] = c
         /\ \E r \in Streams : b \in Range(recvd[c][r])

C9_Witness ==
  \E c, d \in Conns :
    /\ c # d
    /\ SrvAlive(c) /\ dgEchoed[c] # <<>>
    /\ SrvAlive(d) /\ written[d][1] # <<>>

\* The options select the skip-certificate-verification policy.
InsecureSelected(o) == "insecure" \in DOMAIN o /\ o["insecure"]

C11_AlpnMustMatch ==
  \A c \in Conns :
    /\ (client[c] \in {"ready", "exit"} \/ handler[c] \in {"accept_bi", "ret_ok"})
         => alpn[c] = ServerALPN
    /\ (client[c] # "start" /\ alpn[c] # ServerALPN) =>
         /\ client[c] \in {"connect", "failed"}
         /\ handler[c] \in {"queued", "handshake", "ret_err"}
         /\ dgram[c] = "none"
         /\ \A s \in Streams : xchg[c][s] = "idle" /\ task[c][s] = "none"

C11_Witness ==
  \E c \in Conns :
    /\ alpn[c] # ServerALPN
    /\ client[c] = "failed"
    /\ handler[c] = "ret_err"

\* handle_incoming has returned.
Returned(c) == handler[c] \in {"ret_ok", "ret_err"}

\* C12 as claimed: handle_incoming returns once the workers are scheduled,
\* so it is not inside the stream accept loop while the connection is live.
C12_SupervisorReturnsAtOnce ==
  \A c \in Conns :
    (dgram[c] = "read_datagram" /\ srvErr[c] = "None") => Returned(c)

\* C12 as amended: handle_incoming spawns the datagram task and every
\* stream echo task and waits for none of them, but it runs the stream
\* accept loop itself: it has returned only after the connection's error,
\* and then it can return whatever its workers are doing.
C12_SupervisorIsAcceptLoop ==
  \A c \in Conns :
    /\ Returned(c) /\ dgram[c] # "none" => srvErr[c] # "None"
    /\ SrvAlive(c) => dgram[c] = "read_datagram"
    /\ (handler[c] = "accept_bi" /\ srvErr[c] # "None") => ENABLED AcceptBiErr(c)

C12_Witness ==
  \E c \in Conns, s \in Streams :
    /\ Returned(c)
    /\ dgram[c] = "read_datagram"
    /\ task[c][s] \in {"read", "write"}

\* The number of "datagram send failed" lines of connection c.
SendFailures(c) == CopiesIn(<<"datagram send failed", c>>, log)

\* C13: the datagram worker exits only on a receive error.  It has left its
\* loop only after the connection's error; until then every datagram it
\* has read got exactly one send attempt, echoed or logged as failed; a
\* failed send leaves it waiting for the next datagram, which it can take.
C13_DgramExitOnlyOnRecvError ==
  \A c \in Conns :
    /\ dgram[c] = "exit" => srvErr[c] # "None"
    /\ Len(dgRead[c]) = Len(dgEchoed[c]) + SendFailures(c)
    /\ (SendFailures(c) > 0 /\ srvErr[c] = "None") =>
         /\ dgram[c] = "read_datagram"
         /\ dgIn[c] # <<>> => ENABLED DgramEcho(c)

C13_Witness ==
  \E c \in Conns :
    /\ srvErr[c] = "None"
    /\ SendFailures(c) = 1
    /\ Len(dgRead[c]) = 2
    /\ Len(dgEchoed[c]) = 1

\* Everything the echo task of stream s holds and has done.
TaskState(c, s) ==
  <<task[c][s], buf[c][s], recvd[c][s], written[c][s], finSent[c][s]>>

\* C14: the stream echo task's state machine.  The task has called finish
\* (it is "done") only on the end-of-input, with every byte it read
\* written before; a finish is never sent otherwise; a task that an error
\* ended has sent none; and a task that has ended does nothing more.
C14_EchoTaskStateMachine ==
  /\ [](\A c \in Conns, s \in Streams :
          /\ task[c][s] = "done" =>
               /\ finIn[c][s]
               /\ recvd[c][s] = inbound[c][s]
               /\ written[c][s] = recvd[c][s]
               /\ buf[c][s] = <<>>
          /\ finSent[c][s] => task[c][s] = "done"
          /\ task[c][s] = "aborted" => ReadFails(c, s) \/ WriteFails(c, s))
  /\ [][\A c \in Conns, s \in Streams :
          task[c][s] \in {"done", "aborted"} =>
            TaskState(c, s)' = TaskState(c, s)]_vars

C14_Witness ==
  \E c \in Conns :
    /\ task[c][1] = "done" /\ written[c][1] # <<>>
    /\ task[c][2] = "aborted" /\ Len(written[c][2]) < Len(recvd[c][2])

\* An echo task has ended on an error of its own stream, with the
\* connection alive.
StreamFailed(c, s) == task[c][s] = "aborted" /\ srvErr[c] = "None"

\* The log has a line about connection c.
Logged(c) == \E l \in BagToSet(log) : l[2] = c

\* C15 as stated: when a read or write error on one stream has ended that
\* stream's echo task, the connection's accept loop, its datagram worker and
\* the acceptor go on, and the failure is in the log.
C15_StreamFailureContainedAndLogged ==
  \A c \in Conns, s \in Streams :
    StreamFailed(c, s) =>
      /\ handler[c] = "accept_bi"
      /\ dgram[c] = "read_datagram"
      /\ acceptor = "accept"
      /\ Logged(c)

\* C15, amended: a read or write error on one stream ends that stream's echo
\* task and nothing else: the step leaves every other echo task, the
\* connection's accept loop and datagram worker, the acceptor and the log as
\* they were (nothing is logged, lines 160-167), and afterwards the
\* accept loop and the datagram worker of the connection are still running.
C15_StreamFailureContainedSilent ==
  /\ [](\A c \in Conns, s \in Streams :
          StreamFailed(c, s) =>
            /\ handler[c] = "accept_bi"
            /\ dgram[c] = "read_datagram")
  /\ [][\A c \in Conns, s \in Streams :
          task[c][s] # "aborted" /\ task'[c][s] = "aborted" =>
            /\ \A d \in Conns, r \in Streams :
                 <<d, r>> # <<c, s>> => TaskState(d, r)' = TaskState(d, r)
            /\ UNCHANGED <<acceptor, handler, srvErr, dgram, log>>
            /\ UNCHANGED <<cliConn, exch, strm, dgs>>]_vars

\* Stream 1 has failed on an error of its own, and stream 2 of the same
\* connection has been echoed to its end.
C15_Witness ==
  \E c \in Conns :
    /\ StreamFailed(c, 1)
    /\ strmErr[c][1] # "None"
    /\ task[c][2] = "done"
    /\ finSent[c][2]
    /\ written[c][2] # <<>>
    /\ log = EmptyBag

\* The stream accept loop of connection c has ended: handle_incoming has
\* returned after the connection was established.
LoopEnded(c) == handler[c] \in {"ret_ok", "ret_err"} /\ client[c] # "failed"

\* C16: how the stream accept loop ends.  The step that ends the loop happens
\* on a connection error of accept_bi; its result is success, with the log
\* as it was, exactly when that error is the peer's application close, and
\* otherwise an error, with one more "connection failed" line for the
\* connection in the log.  After the loop has ended, the result stays and no
\* further stream of the connection is accepted.
C16_AcceptLoopClosure ==
  /\ [][\A c \in Conns :
          handler[c] = "accept_bi" /\ handler'[c] # "accept_bi" =>
            /\ srvErr[c] # "None"
            /\ handler'[c] = "ret_ok" <=> srvErr[c] = "ApplicationClosed"
            /\ handler'[c] = "ret_ok" => log' = log
            /\ handler'[c] # "ret_ok" =>
                 /\ handler'[c] = "ret_err"
                 /\ log' = log (+) SetToBag({<<"connection failed", c>>})]_vars
  /\ [][\A c \in Conns :
          handler[c] \in {"ret_ok", "ret_err"} =>
            /\ handler'[c] = handler[c]
            /\ \A s \in Streams : task[c][s] = "none" => task'[c][s] = "none"]_vars
  /\ [](\A c \in Conns :
          /\ handler[c] = "ret_ok" =>
               /\ srvErr[c] = "ApplicationClosed"
               /\ ~BagIn(<<"connection failed", c>>, log)
          /\ handler[c] = "ret_err" => BagIn(<<"connection failed", c>>, log))

\* One connection's loop has ended cleanly with a stream the peer had opened
\* never accepted; the other's has ended with a logged error.
C16_Witness ==
  \E c, d \in Conns :
    /\ handler[c] = "ret_ok" /\ LoopEnded(c)
    /\ \E s \in Streams : xchg[c][s] = "done" /\ task[c][s] = "none"
    /\ handler[d] = "ret_err" /\ LoopEnded(d) /\ srvErr[d] = "TimedOut"
    /\ log = SetToBag({<<"connection failed", d>>})

\* C17: per-stream order.  In every reachable state the bytes an echo task
\* has written to its send half are a prefix of the bytes it has read from
\* its recv half, which are a prefix of the bytes the peer has sent on the
\* stream; what is read and not written is exactly the slice in buf.
C17_WrittenPrefixOfRead ==
  \A c \in Conns, s \in Streams :
    /\ IsPrefix(written[c][s], recvd[c][s])
    /\ IsPrefix(recvd[c][s], inbound[c][s])
    /\ recvd[c][s] = written[c][s] \o buf[c][s]

\* A stream of more than one buffer, aborted midway: part of it written, a
\* read slice shorter than the buffer never written, and more still unread.
C17_Witness ==
  \E c \in Conns, s \in Streams :
    /\ task[c][s] = "aborted"
    /\ Len(written[c][s]) >= BufSize
    /\ Len(buf[c][s]) = 1
    /\ Len(recvd[c][s]) < Len(inbound[c][s])

\* The exchange on stream s of connection c waits in open_bi or write_all
\* for the peer's credit, with the connection alive.
SendStalled(c, s) ==
  /\ StreamMode(c)
  /\ stalled[c]
  /\ ~cliErr[c]
  /\ CanStart(c, s) \/ xchg[c][s] = "write_all"

\* C18 as stated: the timeout bounds the whole stream exchange, so an
\* exchange whose open or write cannot complete with the connection alive
\* can end with the timeout's failure.
C18_WholeExchangeTimed ==
  \A c \in Conns, s \in Streams :
    SendStalled(c, s) => ENABLED ClientTimeout(c, s)

\* C18, amended: in stream mode the timeout bounds the receive only (line
\* 216).  An exchange ends with the timeout's failure only from
\* read_to_end; an exchange whose open_bi or write_all waits for the peer
\* with the connection alive has no step at all, the timeout's included,
\* and when it does end it ends with the connection's error.
C18_OnlyReceiveTimed ==
  /\ [][\A c \in Conns, s \in Streams :
          StreamMode(c) /\ xchg[c][s] # "done" /\ Ended(c, s, "timeout")' =>
            xchg[c][s] = "read_to_end"]_vars
  /\ [][\A c \in Conns, s \in Streams :
          StreamMode(c) /\ stalled[c] /\ xchg[c][s] \in {"idle", "write_all"}
            /\ xchg'[c][s] # xchg[c][s] =>
              cliErr[c] /\ Ended(c, s, "conn_error")']_vars
  /\ [](\A c \in Conns, s \in Streams :
          SendStalled(c, s) =>
            ~ENABLED (\/ ClientOpenBi(c, s)
                      \/ ClientWriteAll(c, s)
                      \/ ClientTimeout(c, s)))

\* One exchange waits in write_all for the peer's credit with both sides of
\* the connection alive, and another has ended with the timeout's failure.
C18_Witness ==
  \E c, d \in Conns :
    /\ SendStalled(c, 1) /\ xchg[c][1] = "write_all" /\ SrvAlive(c)
    /\ StreamMode(d) /\ Ended(d, 1, "timeout")

\* The echo task of stream r waits for its peer with the connection alive:
\* in read with no byte, no end-of-input and no error to return, or in
\* write_all with the peer not reading.
Stuck(c, r) ==
  /\ SrvAlive(c)
  /\ \/ /\ task[c][r] = "read"
        /\ Unread(c, r) = <<>>
        /\ ~finIn[c][r]
        /\ ~ReadFails(c, r)
     \/ /\ task[c][r] = "write"
        /\ WriteBlocked(c, r)

\* The next stream accept_bi returns on connection c is s.
NextStream(c, s) ==
  /\ PendingStream(c, s)
  /\ \A q \in Streams : q < s => ~PendingStream(c, q)

\* C19: streams of one connection are not serialized.  While the echo task
\* of one stream waits for its peer, the connection's datagram task is in
\* its loop, the next stream the peer has opened can be accepted, and the
\* echo task of every other stream can take its next step: read what has
\* arrived, write what it has read, finish at end-of-input.
C19_StreamsNotSerialized ==
  \A c \in Conns, r \in Streams :
    Stuck(c, r) =>
      /\ handler[c] = "accept_bi"
      /\ dgram[c] = "read_datagram"
      /\ \A s \in Streams \ {r} :
           /\ NextStream(c, s) => ENABLED AcceptBi(c, s)
           /\ task[c][s] = "read" /\ strmErr[c][s] # "Reset" =>
                /\ Unread(c, s) # <<>> => ENABLED StreamRead(c, s)
                /\ Unread(c, s) = <<>> /\ finIn[c][s] => ENABLED StreamEof(c, s)
           /\ task[c][s] = "write" /\ strmErr[c][s] = "None" =>
                ENABLED StreamWrite(c, s)

\* Stream 1 is stuck in write_all, its peer not reading, and stream 2 of
\* the same connection, opened later, has been echoed to its end.
C19_Witness ==
  \E c \in Conns :
    /\ Stuck(c, 1)
    /\ task[c][1] = "write"
    /\ task[c][2] = "done"
    /\ finSent[c][2]
    /\ written[c][2] = payload[c][2]
    /\ written[c][2] # <<>>

\* The bytes an echo task has read and not yet written.
Unwritten(c, s) == Len(recvd[c][s]) - Len(written[c][s])

\* C20: bounded buffering per stream.  An echo task reads only when all it
\* has read before is written; what it has read and not written is never
\* more than its buffer of 16 KiB; and while its write_all waits for a peer
\* that does not drain the echo, the task reads nothing more from its
\* stream, whatever has arrived on it.
C20_BoundedBuffering ==
  /\ [](\A c \in Conns, s \in Streams :
          /\ Unwritten(c, s) * Granule <= 16 * 1024
          /\ Unwritten(c, s) = Len(buf[c][s])
          /\ Unwritten(c, s) > 0 => ~ENABLED StreamRead(c, s)
          /\ task[c][s] = "write" /\ WriteBlocked(c, s) =>
               ~ENABLED (\/ StreamRead(c, s)
                         \/ StreamEof(c, s)
                         \/ StreamWrite(c, s)))
  /\ [][\A c \in Conns, s \in Streams :
          recvd'[c][s] # recvd[c][s] =>
            /\ Unwritten(c, s) = 0
            /\ task[c][s] = "read"
            /\ Unwritten(c, s)' <= BufSize]_vars

\* An echo task holds a full buffer in a write_all its peer does not drain,
\* with more of the stream arrived and unread.
C20_Witness ==
  \E c \in Conns, s \in Streams :
    /\ task[c][s] = "write"
    /\ WriteBlocked(c, s)
    /\ Unwritten(c, s) = BufSize
    /\ written[c][s] # <<>>
    /\ Len(Unread(c, s)) > BufSize

====
